---- MODULE Spec2Model ----
(***************************************************************************)
(* FAkComponentCallbackManager (AkComponentCallbackManager.cpp): the       *)
(* registry that maps a game object id to the set of callback packages     *)
(* posted on it, the trampoline AkComponentCallback the sound engine calls *)
(* on its own thread, and the game-thread operations on the registry.      *)
(*                                                                         *)
(* Two threads: "game" runs CreateCallbackPackage, RemoveCallbackPackage,  *)
(* RegisterGameObject, UnregisterGameObject, HasActiveEvents and the       *)
(* destructor, one at a time; "audio" runs the trampoline.  Every step     *)
(* between two accesses to shared state (the lock, the map, a package's    *)
(* memory) is one action.                                                  *)
(*                                                                         *)
(* A package handle is never reused.  delete of a package that is already  *)
(* freed and a read through a freed package are undefined behaviour: the   *)
(* model records them (freeCount, tUafRead, tUafCall) and lets the read    *)
(* return any flag mask; a crash is the behaviour that stops there.        *)
(*                                                                         *)
(* Callers: RemoveCallbackPackage is called once per handle, with the game *)
(* object the handle was created for; the destructor runs when no other    *)
(* operation and no callback is in progress; the sound engine fires end of *)
(* event last for a cookie and nothing for a game object once              *)
(* CancelEventCallbackGameObject has returned.                             *)
(***************************************************************************)
EXTENDS Integers, FiniteSets, Sequences, TLC

\* ---------------------------------------------------------------- bounds
MaxPackages == 2
NumGameObjects == 2
MaxUserCookie == 2
MaxUserFunctions == 1

Packages == 1..MaxPackages
GameObjs == 1..NumGameObjects

\* a null package pointer (handles are 1..MaxPackages)
NULL == 0
\* Instance == nullptr
NoInstance == "nullptr"

\* ------------------------------------------------------- program constants
\* The other value Optimize::Value can be set to
Optimize_Speed == "Speed"

\* Optimize::Value of FAkComponentCallbackManager_Constants
Optimize == "MemoryUsage"

\* AkCallbackType bits the trampoline is called with
AK_EndOfEvent == 1
AK_Marker == 4
EventTypes == {AK_EndOfEvent, AK_Marker}

\* in_Flags given to CreateCallbackPackage: a mask selects one of the event types
FlagChoices == {AK_EndOfEvent, AK_Marker}

RECURSIVE BitAnd(_, _)
\* a & b on naturals
BitAnd(a, b) ==
    IF a = 0 \/ b = 0 THEN 0
    ELSE (IF a % 2 = 1 /\ b % 2 = 1 THEN 1 ELSE 0) + 2 * BitAnd(a \div 2, b \div 2)

VARIABLES
    Instance,                 \* FAkComponentCallbackManager::Instance: "this" or NoInstance
    GameObjectToPackagesMap,  \* function: keys of the TMap -> set of package handles
    CriticalSection,          \* "none", or the thread holding the lock
    allocated,                \* handles returned by new so far
    uUserFlags,               \* package -> flag mask given at construction
    owner,                    \* package -> game object id it was created for
    freeCount,                \* package -> number of times delete ran on it
    pending,                  \* cookies the sound engine may still call back with
    removeCalled,             \* packages RemoveCallbackPackage was called with
    gpc, gObj, gPkg,          \* game thread: position, in_gameObjID, package
    uIter, uSnap, uMap0,      \* UnregisterGameObject: left to delete, set found, map at lock
    hasActiveRet,             \* HasActiveEvents: value being returned
    gDelLocked,               \* this operation ran delete while holding the lock
    apc, tPkg, tType, tObj,   \* audio thread: position, cookie, in_eType, gameObjID
    deletePackage,            \* trampoline local
    tFlags,                   \* trampoline: the mask read at line 83
    tInvoked,                 \* trampoline: HandleAction calls of this invocation
    tRemoved,                 \* trampoline: this invocation took pPackage out of the map
    tDelLocked,               \* trampoline: delete ran while holding the lock
    tUafRead,                 \* trampoline: uUserFlags was read from a freed package
    tUafCall,                 \* trampoline: HandleAction ran on a freed package
    hpc,                      \* FAkFunctionPtrEventCallbackPackage::HandleAction: position
    hThis,                    \* HandleAction: this
    pfnUserCallback,          \* member of the package: NULL or a user function
    pUserCookie,              \* member of the package: the cookie the user gave
    in_eType,                 \* HandleAction: its first argument
    pCookie,                  \* in_pCallbackInfo->pCookie
    gameObjID,                \* in_pCallbackInfo->gameObjID
    seenCookie,               \* pCookie as the user function found it when called
    seenType                  \* the event type the user function was called with

vars == << Instance, GameObjectToPackagesMap, CriticalSection, allocated, uUserFlags,
           owner, freeCount, pending, removeCalled,
           gpc, gObj, gPkg, uIter, uSnap, uMap0, hasActiveRet, gDelLocked,
           apc, tPkg, tType, tObj, deletePackage, tFlags, tInvoked, tRemoved,
           tDelLocked, tUafRead, tUafCall,
           hpc, hThis, pfnUserCallback, pUserCookie, in_eType, pCookie, gameObjID,
           seenCookie, seenType >>

regVars == << Instance, GameObjectToPackagesMap >>
heapVars == << allocated, uUserFlags, owner, freeCount >>
gameLocals == << gObj, gPkg, uIter, uSnap, uMap0, hasActiveRet, gDelLocked >>
audioLocals == << tPkg, tType, tObj, deletePackage, tFlags, tInvoked, tRemoved,
                  tDelLocked, tUafRead, tUafCall >>
audioVars == << apc, audioLocals >>
handleVars == << hpc, hThis, pfnUserCallback, pUserCookie, in_eType, pCookie,
                 gameObjID, seenCookie, seenType >>

\* void* values: a pointer to a package, or a cookie of the user (0 is nullptr)
UserCookies == 0..MaxUserCookie
UserFunctions == 1..MaxUserFunctions
PackagePtr(p) == << "package", p >>
UserPtr(k) == << "user", k >>
CookieValues == {PackagePtr(p) : p \in Packages} \cup {UserPtr(k) : k \in UserCookies}
NotCalled == << "none", 0 >>

EmptyMap == [k \in {} |-> {}]

\* ------------------------------------------------------------ TMap / TSet
\* TMap::Find(key) != nullptr
Contains(m, g) == g \in DOMAIN m

\* TMap::Remove(key)
MapRemove(m, g) == [k \in DOMAIN m \ {g} |-> m[k]]

\* FindOrAdd(in_gameObjID) assigned a fresh set holding only pPackage
FindOrAddAdd_Overwrites(m, g, p) ==
    [k \in DOMAIN m \cup {g} |-> IF k = g THEN {p} ELSE m[k]]

\* GameObjectToPackagesMap.FindOrAdd(in_gameObjID).Add(pPackage)
FindOrAddAdd(m, g, p) ==
    [k \in DOMAIN m \cup {g} |->
        IF k = g THEN (IF g \in DOMAIN m THEN m[g] ELSE {}) \cup {p} ELSE m[k]]

\* RemovePackageFromSet that erases the whole entry instead of the one handle
RemovePackageFromSet_DropsSet(m, p, g) == MapRemove(m, g)

\* RemovePackageFromSet(in_pPackageSet, in_pPackage, in_gameObjID); the set is m[g]
RemovePackageFromSet(m, p, g) ==
    LET s == m[g] \ {p} IN
    IF Optimize = "MemoryUsage" /\ Cardinality(s) = 0
    THEN MapRemove(m, g)
    ELSE [m EXCEPT ![g] = s]

\* The set stored for g: *Find(g), or no handle when Find(g) is nullptr
PackageSet(m, g) == IF Contains(m, g) THEN m[g] ELSE {}

\* HasActiveEvents with the comparison off by one: Num() > 1
HasActiveEventsValue_OffByOne(m, g) == Contains(m, g) /\ Cardinality(m[g]) > 1

\* pPackageSet && pPackageSet->Num() > 0
HasActiveEventsValue(m, g) == Contains(m, g) /\ Cardinality(m[g]) > 0

\* delete p
Delete(p) == freeCount' = [freeCount EXCEPT ![p] = @ + 1]

Live(p) == p \in allocated /\ freeCount[p] = 0

Init ==
    /\ Instance = "this"
    /\ GameObjectToPackagesMap = EmptyMap
    /\ CriticalSection = "none"
    /\ allocated = {}
    /\ uUserFlags = [p \in Packages |-> 0]
    /\ owner = [p \in Packages |-> 1]
    /\ freeCount = [p \in Packages |-> 0]
    /\ pending = {}
    /\ removeCalled = {}
    /\ gpc = "idle" /\ gObj = 1 /\ gPkg = 1
    /\ uIter = {} /\ uSnap = {} /\ uMap0 = EmptyMap
    /\ hasActiveRet = FALSE /\ gDelLocked = FALSE
    /\ apc = "idle" /\ tPkg = NULL /\ tType = AK_EndOfEvent /\ tObj = 1
    /\ deletePackage = FALSE /\ tFlags = 0 /\ tInvoked = 0 /\ tRemoved = FALSE
    /\ tDelLocked = FALSE /\ tUafRead = FALSE /\ tUafCall = FALSE
    /\ hpc = "none" /\ hThis = 1 /\ pfnUserCallback = NULL /\ pUserCookie = 0
    /\ in_eType = AK_EndOfEvent /\ pCookie = PackagePtr(1) /\ gameObjID = 1
    /\ seenCookie = NotCalled /\ seenType = AK_EndOfEvent

GameIdle == gpc = "idle" /\ Instance # NoInstance

\* An operation of the game thread returns: its locals go out of scope
GameReturn ==
    /\ gpc' = "idle"
    /\ gObj' = 1 /\ gPkg' = 1
    /\ uIter' = {} /\ uSnap' = {} /\ uMap0' = EmptyMap
    /\ hasActiveRet' = FALSE /\ gDelLocked' = FALSE

\* ------------------------------------------------------------ game thread
\* CreateCallbackPackage, line 115: new ...Package(..., in_Flags)
CreateNew ==
    /\ GameIdle
    /\ Cardinality(allocated) < MaxPackages
    /\ \E g \in GameObjs, flags \in FlagChoices :
         LET p == Cardinality(allocated) + 1 IN
         \* the code only compares ids: they are numbered in order of first use
         /\ g <= Cardinality({owner[q] : q \in allocated}) + 1
         /\ allocated' = allocated \cup {p}
         /\ uUserFlags' = [uUserFlags EXCEPT ![p] = flags]
         /\ owner' = [owner EXCEPT ![p] = g]
         /\ gpc' = "C_lock" /\ gObj' = g /\ gPkg' = p
    /\ UNCHANGED << handleVars, regVars, CriticalSection, freeCount, pending,
                    removeCalled,
                    uIter, uSnap, uMap0, hasActiveRet, gDelLocked, audioVars >>

\* line 118: FScopeLock Lock(&CriticalSection)
CreateLock ==
    /\ gpc = "C_lock"
    /\ CriticalSection = "none"
    /\ CriticalSection' = "game"
    /\ gpc' = "C_add"
    /\ UNCHANGED << handleVars, regVars, heapVars, pending, removeCalled, gameLocals,
                    audioVars >>

\* lines 119-122: FindOrAdd(in_gameObjID).Add(pPackage), unlock, return pPackage.
\* The caller posts the event with the package as cookie: the engine holds it.
CreateAdd ==
    /\ gpc = "C_add"
    /\ GameObjectToPackagesMap' = FindOrAddAdd(GameObjectToPackagesMap, gObj, gPkg)
    /\ CriticalSection' = "none"
    /\ pending' = pending \cup {gPkg}
    /\ GameReturn
    /\ UNCHANGED << handleVars, Instance, heapVars, removeCalled, audioVars >>

\* RemoveCallbackPackage(in_Package, in_gameObjID) is called, once per handle,
\* with the game object the handle was created for
RemoveCall ==
    /\ GameIdle
    /\ \E p \in allocated \ removeCalled :
         /\ gPkg' = p /\ gObj' = owner[p]
         /\ removeCalled' = removeCalled \cup {p}
    /\ gpc' = "R_lock"
    /\ UNCHANGED << handleVars, regVars, CriticalSection, heapVars, pending,
                    uIter, uSnap, uMap0, hasActiveRet, gDelLocked, audioVars >>

\* line 152
RemoveLock ==
    /\ gpc = "R_lock"
    /\ CriticalSection = "none"
    /\ CriticalSection' = "game"
    /\ gpc' = "R_body"
    /\ UNCHANGED << handleVars, regVars, heapVars, pending, removeCalled, gameLocals,
                    audioVars >>

\* RemoveCallbackPackage without lines 153-155: the handle stays in its set
RemoveBody_SkipsRemoval ==
    /\ gpc = "R_body"
    /\ CriticalSection' = "none"
    /\ gpc' = "R_delete"
    /\ UNCHANGED << handleVars, regVars, heapVars, pending, removeCalled, gameLocals,
                    audioVars >>

\* lines 153-156: Find, RemovePackageFromSet when found, unlock
RemoveBody ==
    /\ gpc = "R_body"
    /\ GameObjectToPackagesMap' =
         IF Contains(GameObjectToPackagesMap, gObj)
         THEN RemovePackageFromSet(GameObjectToPackagesMap, gPkg, gObj)
         ELSE GameObjectToPackagesMap
    /\ CriticalSection' = "none"
    /\ gpc' = "R_delete"
    /\ UNCHANGED << handleVars, Instance, heapVars, pending, removeCalled, gameLocals,
                    audioVars >>

\* lines 158-159: delete in_Package, return
RemoveDelete ==
    /\ gpc = "R_delete"
    /\ Delete(gPkg)
    /\ GameReturn
    /\ UNCHANGED << handleVars, regVars, CriticalSection, allocated, uUserFlags,
                    owner, pending,
                    removeCalled, audioVars >>

\* RegisterGameObject, lines 161-168
RegisterGameObject ==
    /\ GameIdle
    /\ \E g \in GameObjs :
         GameObjectToPackagesMap' =
              IF Optimize = "Speed"
              THEN [k \in DOMAIN GameObjectToPackagesMap \cup {g} |->
                      IF k \in DOMAIN GameObjectToPackagesMap
                      THEN GameObjectToPackagesMap[k] ELSE {}]
              ELSE GameObjectToPackagesMap
    /\ UNCHANGED << handleVars, Instance, CriticalSection, heapVars, pending,
                    removeCalled,
                    gpc, gameLocals, audioVars >>

\* UnregisterGameObject taking the lock before line 173
UnregisterCall_LocksFirst ==
    /\ GameIdle
    /\ CriticalSection = "none"
    /\ CriticalSection' = "game"
    /\ \E g \in GameObjs :
         /\ gObj' = g
         /\ pending' = {p \in pending : owner[p] # g}
    /\ gpc' = "U_cancel"
    /\ UNCHANGED << handleVars, regVars, heapVars, removeCalled,
                    gPkg, uIter, uSnap, uMap0, hasActiveRet, gDelLocked, audioVars >>

\* UnregisterGameObject, line 173: CancelEventCallbackGameObject is called; from
\* here on the sound engine starts no callback for the game object. The call
\* returns at once when no callback for the game object is running
UnregisterCall ==
    /\ GameIdle
    /\ \E g \in GameObjs :
         /\ gObj' = g
         /\ pending' = {p \in pending : owner[p] # g}
         /\ gpc' = IF apc = "idle" \/ tObj # g THEN "U_lock" ELSE "U_cancel"
    /\ UNCHANGED << handleVars, regVars, CriticalSection, heapVars, removeCalled,
                    gPkg, uIter, uSnap, uMap0, hasActiveRet, gDelLocked, audioVars >>

\* line 173: CancelEventCallbackGameObject returns once the callback that was
\* running for the game object has returned
UnregisterCancel ==
    /\ gpc = "U_cancel"
    /\ apc = "idle" \/ tObj # gObj
    /\ gpc' = "U_lock"
    /\ UNCHANGED << handleVars, regVars, CriticalSection, heapVars, pending,
                    removeCalled, gameLocals, audioVars >>

\* lines 175-177: FScopeLock, Find
UnregisterLock ==
    /\ gpc = "U_lock"
    /\ CriticalSection = "none"
    /\ CriticalSection' = "game"
    /\ uMap0' = GameObjectToPackagesMap
    /\ IF Contains(GameObjectToPackagesMap, gObj)
       THEN /\ uSnap' = GameObjectToPackagesMap[gObj]
            /\ uIter' = GameObjectToPackagesMap[gObj]
            /\ gpc' = "U_loop"
       ELSE /\ uSnap' = {} /\ uIter' = {}
            /\ gpc' = "U_ret"
    /\ UNCHANGED << handleVars, regVars, heapVars, pending, removeCalled,
                    gObj, gPkg, hasActiveRet, gDelLocked, audioVars >>

\* lines 179-180: one iteration of the loop, delete pPackage
UnregisterDelete ==
    /\ gpc = "U_loop"
    /\ uIter # {}
    /\ \E p \in uIter :
         /\ Delete(p)
         /\ uIter' = uIter \ {p}
    /\ gDelLocked' = (gDelLocked \/ CriticalSection = "game")
    /\ UNCHANGED << handleVars, regVars, CriticalSection, allocated, uUserFlags,
                    owner, pending,
                    removeCalled, gpc, gObj, gPkg, uSnap, uMap0, hasActiveRet,
                    audioVars >>

\* UnregisterGameObject without line 182: the entry stays in the map
UnregisterRemove_KeepsSet ==
    /\ gpc = "U_loop"
    /\ uIter = {}
    /\ gpc' = "U_ret"
    /\ UNCHANGED << handleVars, regVars, CriticalSection, heapVars, pending,
                    removeCalled,
                    gameLocals, audioVars >>

\* line 182: GameObjectToPackagesMap.Remove(in_gameObjID)
UnregisterRemove ==
    /\ gpc = "U_loop"
    /\ uIter = {}
    /\ GameObjectToPackagesMap' = MapRemove(GameObjectToPackagesMap, gObj)
    /\ gpc' = "U_ret"
    /\ UNCHANGED << handleVars, Instance, CriticalSection, heapVars, pending,
                    removeCalled,
                    gameLocals, audioVars >>

\* line 184: the scope lock is released as the function returns
UnregisterReturn ==
    /\ gpc = "U_ret"
    /\ CriticalSection' = "none"
    /\ GameReturn
    /\ UNCHANGED << handleVars, regVars, heapVars, pending, removeCalled, audioVars >>

\* HasActiveEvents, lines 188-190: FScopeLock, Find, the value returned
HasActiveLock ==
    /\ GameIdle
    /\ CriticalSection = "none"
    /\ CriticalSection' = "game"
    /\ \E g \in GameObjs :
         /\ gObj' = g
         /\ hasActiveRet' = HasActiveEventsValue(GameObjectToPackagesMap, g)
    /\ gpc' = "H_ret"
    /\ UNCHANGED << handleVars, regVars, heapVars, pending, removeCalled,
                    gPkg, uIter, uSnap, uMap0, gDelLocked, audioVars >>

\* line 191: unlock, return
HasActiveReturn ==
    /\ gpc = "H_ret"
    /\ CriticalSection' = "none"
    /\ GameReturn
    /\ UNCHANGED << handleVars, regVars, heapVars, pending, removeCalled, audioVars >>

\* The packages held in any set of the map
Held(m) == UNION {m[k] : k \in DOMAIN m}

\* A destructor that clears Instance and deletes nothing
Destructor_NoDelete ==
    /\ GameIdle
    /\ apc = "idle"
    /\ GameObjectToPackagesMap' = EmptyMap
    /\ Instance' = NoInstance
    /\ gpc' = "destroyed"
    /\ UNCHANGED << handleVars, CriticalSection, heapVars, pending, removeCalled,
                    gameLocals,
                    audioVars >>

\* ~FAkComponentCallbackManager, lines 104-111; the registry is destroyed when
\* no operation on it and no callback is running
Destructor ==
    /\ GameIdle
    /\ apc = "idle"
    /\ freeCount' = [p \in Packages |->
                       IF p \in Held(GameObjectToPackagesMap)
                       THEN freeCount[p] + 1 ELSE freeCount[p]]
    /\ GameObjectToPackagesMap' = EmptyMap
    /\ Instance' = NoInstance
    /\ gpc' = "destroyed"
    /\ UNCHANGED << handleVars, CriticalSection, allocated, uUserFlags, owner, pending,
                    removeCalled, gameLocals, audioVars >>

\* ----------------------------------------------------------- audio thread
\* UnregisterGameObject(g) has called CancelEventCallbackGameObject(g) and has not
\* returned: the sound engine starts no callback for g
Cancelled(g) == gpc \in {"U_cancel", "U_lock", "U_loop", "U_ret"} /\ gObj = g

\* The trampoline with line 68 testing Instance only
TrampolineCall_NoNullCheck ==
    /\ apc = "idle"
    /\ \E c \in pending \cup {NULL}, t \in EventTypes :
         /\ tPkg' = c /\ tType' = t
         /\ tObj' = IF c # NULL THEN owner[c] ELSE 1
         /\ ~Cancelled(tObj')
         /\ pending' = IF t = AK_EndOfEvent THEN pending \ {c} ELSE pending
         /\ apc' = IF Instance # NoInstance THEN "T_lock" ELSE "T_ret"
    /\ UNCHANGED << handleVars, regVars, CriticalSection, heapVars, removeCalled,
                    gpc, gameLocals,
                    deletePackage, tFlags, tInvoked, tRemoved, tDelLocked, tUafRead,
                    tUafCall >>

\* The sound engine calls AkComponentCallback(in_eType, in_pCallbackInfo) with a
\* cookie it was given (or none) and the game object the event was posted on.
\* End of event is the last callback the engine fires for a cookie.
TrampolineCall ==
    /\ apc = "idle"
    /\ \E c \in pending \cup {NULL}, t \in EventTypes :
         /\ tPkg' = c /\ tType' = t
         /\ tObj' = IF c # NULL THEN owner[c] ELSE 1
         /\ ~Cancelled(tObj')
         /\ pending' = IF t = AK_EndOfEvent THEN pending \ {c} ELSE pending
         \* lines 66-71: if (Instance && pPackage)
         /\ apc' = IF Instance # NoInstance /\ c # NULL THEN "T_lock" ELSE "T_ret"
    /\ UNCHANGED << handleVars, regVars, CriticalSection, heapVars, removeCalled,
                    gpc, gameLocals,
                    deletePackage, tFlags, tInvoked, tRemoved, tDelLocked, tUafRead,
                    tUafCall >>

\* line 74: FScopeLock Lock(&Instance->CriticalSection)
TrampolineLock ==
    /\ apc = "T_lock"
    /\ CriticalSection = "none"
    /\ CriticalSection' = "audio"
    /\ apc' = "T_find"
    /\ UNCHANGED << handleVars, regVars, heapVars, pending, removeCalled, gpc,
                    gameLocals,
                    audioLocals >>

\* The trampoline deleting the package where it takes it out of the map
TrampolineFind_DeletesEarly ==
    /\ apc = "T_find"
    /\ IF Contains(GameObjectToPackagesMap, tObj) /\ tType = AK_EndOfEvent
       THEN /\ GameObjectToPackagesMap' =
                 RemovePackageFromSet(GameObjectToPackagesMap, tPkg, tObj)
            /\ deletePackage' = FALSE
            /\ tRemoved' = (tPkg \in GameObjectToPackagesMap[tObj])
            /\ Delete(tPkg)
       ELSE UNCHANGED << GameObjectToPackagesMap, deletePackage, tRemoved, freeCount >>
    /\ CriticalSection' = "none"
    /\ apc' = "T_flags"
    /\ UNCHANGED << handleVars, Instance, allocated, uUserFlags, owner, pending,
                    removeCalled,
                    gpc, gameLocals, tPkg, tType, tObj, tFlags, tInvoked,
                    tDelLocked, tUafRead, tUafCall >>

\* The trampoline with line 76 not testing the event type
TrampolineFind_AnyEvent ==
    /\ apc = "T_find"
    /\ IF Contains(GameObjectToPackagesMap, tObj)
       THEN /\ GameObjectToPackagesMap' =
                 RemovePackageFromSet(GameObjectToPackagesMap, tPkg, tObj)
            /\ deletePackage' = TRUE
            /\ tRemoved' = (tPkg \in GameObjectToPackagesMap[tObj])
       ELSE UNCHANGED << GameObjectToPackagesMap, deletePackage, tRemoved >>
    /\ CriticalSection' = "none"
    /\ apc' = "T_flags"
    /\ UNCHANGED << handleVars, Instance, heapVars, pending, removeCalled,
                    gpc, gameLocals, tPkg, tType, tObj, tFlags, tInvoked,
                    tDelLocked, tUafRead, tUafCall >>

\* The trampoline with the lock's scope running to the end of the function
TrampolineFind_KeepLock ==
    /\ apc = "T_find"
    /\ IF Contains(GameObjectToPackagesMap, tObj) /\ tType = AK_EndOfEvent
       THEN /\ GameObjectToPackagesMap' =
                 RemovePackageFromSet(GameObjectToPackagesMap, tPkg, tObj)
            /\ deletePackage' = TRUE
            /\ tRemoved' = (tPkg \in GameObjectToPackagesMap[tObj])
       ELSE UNCHANGED << GameObjectToPackagesMap, deletePackage, tRemoved >>
    /\ apc' = "T_flags"
    /\ UNCHANGED << handleVars, Instance, CriticalSection, heapVars, pending,
                    removeCalled,
                    gpc, gameLocals, tPkg, tType, tObj, tFlags, tInvoked,
                    tDelLocked, tUafRead, tUafCall >>

\* lines 75-81: Find; on end of event with a set found, RemovePackageFromSet and
\* deletePackage = true; the scope of the lock ends
TrampolineFind ==
    /\ apc = "T_find"
    /\ IF Contains(GameObjectToPackagesMap, tObj) /\ tType = AK_EndOfEvent
       THEN /\ GameObjectToPackagesMap' =
                 RemovePackageFromSet(GameObjectToPackagesMap, tPkg, tObj)
            /\ deletePackage' = TRUE
            /\ tRemoved' = (tPkg \in GameObjectToPackagesMap[tObj])
       ELSE UNCHANGED << GameObjectToPackagesMap, deletePackage, tRemoved >>
    /\ CriticalSection' = "none"
    /\ apc' = "T_flags"
    /\ UNCHANGED << handleVars, Instance, heapVars, pending, removeCalled,
                    gpc, gameLocals, tPkg, tType, tObj, tFlags, tInvoked,
                    tDelLocked, tUafRead, tUafCall >>

\* line 83: (pPackage->uUserFlags & in_eType) != 0; the read of a freed package
\* yields any mask
TrampolineFlags ==
    /\ apc = "T_flags"
    /\ IF Live(tPkg)
       THEN /\ tFlags' = uUserFlags[tPkg]
            /\ tUafRead' = tUafRead
       ELSE /\ tFlags' \in FlagChoices
            /\ tUafRead' = TRUE
    /\ apc' = IF BitAnd(tFlags', tType) # 0 THEN "T_handle" ELSE "T_delete"
    /\ UNCHANGED << handleVars, regVars, CriticalSection, heapVars, pending,
                    removeCalled,
                    gpc, gameLocals, tPkg, tType, tObj, deletePackage, tInvoked,
                    tRemoved, tDelLocked, tUafCall >>

\* line 85: pPackage->HandleAction(in_eType, in_pCallbackInfo)
TrampolineHandle ==
    /\ apc = "T_handle"
    /\ tInvoked' = tInvoked + 1
    /\ tUafCall' = (tUafCall \/ ~Live(tPkg))
    /\ apc' = "T_delete"
    /\ UNCHANGED << handleVars, regVars, CriticalSection, heapVars, pending,
                    removeCalled,
                    gpc, gameLocals, tPkg, tType, tObj, deletePackage, tFlags,
                    tRemoved, tDelLocked, tUafRead >>

\* The trampoline without lines 88-89: the package is never deleted
TrampolineDelete_Leak ==
    /\ apc = "T_delete"
    /\ apc' = "T_ret"
    /\ UNCHANGED << handleVars, regVars, CriticalSection, heapVars, pending,
                    removeCalled,
                    gpc, gameLocals, audioLocals >>

\* lines 88-89: if (deletePackage) delete pPackage
TrampolineDelete ==
    /\ apc = "T_delete"
    /\ IF deletePackage
       THEN /\ Delete(tPkg)
            /\ tDelLocked' = (tDelLocked \/ CriticalSection = "audio")
       ELSE UNCHANGED << freeCount, tDelLocked >>
    /\ apc' = "T_ret"
    /\ UNCHANGED << handleVars, regVars, CriticalSection, allocated, uUserFlags,
                    owner, pending,
                    removeCalled, gpc, gameLocals, tPkg, tType, tObj,
                    deletePackage, tFlags, tInvoked, tRemoved, tUafRead, tUafCall >>

\* line 92: return to the engine; the locals go out of scope
TrampolineReturn ==
    /\ apc = "T_ret"
    /\ apc' = "idle"
    /\ tPkg' = NULL /\ tType' = AK_EndOfEvent /\ tObj' = 1
    /\ deletePackage' = FALSE /\ tFlags' = 0 /\ tInvoked' = 0 /\ tRemoved' = FALSE
    /\ tDelLocked' = FALSE /\ tUafRead' = FALSE /\ tUafCall' = FALSE
    /\ UNCHANGED << handleVars, regVars, CriticalSection, heapVars, pending,
                    removeCalled,
                    gpc, gameLocals >>

\* ---------------------------------------------------------- specification
Next ==
    \/ CreateNew \/ CreateLock \/ CreateAdd
    \/ RemoveCall \/ RemoveLock \/ RemoveBody \/ RemoveDelete
    \/ RegisterGameObject
    \/ UnregisterCall \/ UnregisterCancel \/ UnregisterLock
    \/ UnregisterDelete \/ UnregisterRemove \/ UnregisterReturn
    \/ HasActiveLock \/ HasActiveReturn
    \/ Destructor
    \/ TrampolineCall \/ TrampolineLock \/ TrampolineFind
    \/ TrampolineFlags \/ TrampolineHandle
    \/ TrampolineDelete \/ TrampolineReturn

Spec == Init /\ [][Next]_vars

\* Only CreateCallbackPackage and RemoveCallbackPackage are called
NextCR ==
    \/ CreateNew \/ CreateLock \/ CreateAdd
    \/ RemoveCall \/ RemoveLock \/ RemoveBody \/ RemoveDelete

SpecCR == Init /\ [][NextCR]_vars

\* Only the game thread runs: no callback arrives from the sound engine, so
\* CancelEventCallbackGameObject never waits
NextGame ==
    \/ CreateNew \/ CreateLock \/ CreateAdd
    \/ RemoveCall \/ RemoveLock \/ RemoveBody \/ RemoveDelete
    \/ UnregisterCall \/ UnregisterLock
    \/ UnregisterDelete \/ UnregisterRemove \/ UnregisterReturn

SpecGame == Init /\ [][NextGame]_vars

\* The threads are scheduled fairly: an operation of the game thread that has
\* been called, and a callback the sound engine has started, take their next
\* step when they can; a thread waiting for the lock gets it if it is free
\* again and again; the handlers called at line 85 return.
Fairness ==
    /\ WF_vars(UnregisterCancel)
    /\ SF_vars(UnregisterLock)
    /\ WF_vars(UnregisterDelete \/ UnregisterRemove \/ UnregisterReturn)
    /\ SF_vars(TrampolineLock)
    /\ WF_vars(TrampolineFind \/ TrampolineFlags \/ TrampolineHandle
                 \/ TrampolineDelete \/ TrampolineReturn)

\* Packages are created, game objects are unregistered and callbacks arrive
NextLive ==
    \/ CreateNew \/ CreateLock \/ CreateAdd
    \/ UnregisterCall \/ UnregisterCancel \/ UnregisterLock
    \/ UnregisterDelete \/ UnregisterRemove \/ UnregisterReturn
    \/ TrampolineCall \/ TrampolineLock \/ TrampolineFind
    \/ TrampolineFlags \/ TrampolineHandle
    \/ TrampolineDelete \/ TrampolineReturn

SpecLive == Init /\ [][NextLive]_vars /\ Fairness

\* ----------------------- FAkFunctionPtrEventCallbackPackage::HandleAction
\* The trampoline is at line 85 for a package it has just found registered:
\* in_pCallbackInfo->pCookie is the package, and the package's mask has the bit
\* of the event type
InitHandle ==
    /\ Instance = "this"
    /\ CriticalSection = "none"
    /\ hThis \in Packages
    /\ pfnUserCallback \in {NULL} \cup UserFunctions
    /\ pUserCookie \in UserCookies
    /\ in_eType \in EventTypes
    /\ gameObjID \in GameObjs
    /\ pCookie = PackagePtr(hThis)
    /\ seenCookie = NotCalled /\ seenType = in_eType
    /\ hpc = "H_if"
    /\ allocated = {hThis}
    /\ uUserFlags = [p \in Packages |-> IF p = hThis THEN in_eType ELSE 0]
    /\ owner = [p \in Packages |-> IF p = hThis THEN gameObjID ELSE 1]
    /\ freeCount = [p \in Packages |-> 0]
    /\ removeCalled = {}
    /\ GameObjectToPackagesMap =
          IF in_eType = AK_EndOfEvent THEN EmptyMap
          ELSE FindOrAddAdd(EmptyMap, gameObjID, hThis)
    /\ pending = IF in_eType = AK_EndOfEvent THEN {} ELSE {hThis}
    /\ gpc = "idle" /\ gObj = 1 /\ gPkg = 1
    /\ uIter = {} /\ uSnap = {} /\ uMap0 = EmptyMap
    /\ hasActiveRet = FALSE /\ gDelLocked = FALSE
    /\ apc = "T_handle" /\ tPkg = hThis /\ tType = in_eType /\ tObj = gameObjID
    /\ deletePackage = (in_eType = AK_EndOfEvent)
    /\ tRemoved = (in_eType = AK_EndOfEvent)
    /\ tFlags = in_eType /\ tInvoked = 0
    /\ tDelLocked = FALSE /\ tUafRead = FALSE /\ tUafCall = FALSE

registryVars == << regVars, CriticalSection, heapVars, pending, removeCalled,
                   gpc, gameLocals, audioVars >>

\* lines 34-36: if (pfnUserCallback) in_pCallbackInfo->pCookie = pUserCookie
HandleTest ==
    /\ hpc = "H_if"
    /\ IF pfnUserCallback # NULL
       THEN pCookie' = UserPtr(pUserCookie) /\ hpc' = "H_call"
       ELSE pCookie' = pCookie /\ hpc' = "H_ret"
    /\ UNCHANGED << registryVars, hThis, pfnUserCallback, pUserCookie, in_eType,
                    gameObjID, seenCookie, seenType >>

\* line 37: pfnUserCallback(in_eType, in_pCallbackInfo); the user function gets a
\* pointer to the callback info and may write to it
HandleUserCallback ==
    /\ hpc = "H_call"
    /\ seenCookie' = pCookie /\ seenType' = in_eType
    /\ pCookie' \in CookieValues
    /\ gameObjID' \in GameObjs
    /\ hpc' = "H_restore"
    /\ UNCHANGED << registryVars, hThis, pfnUserCallback, pUserCookie, in_eType >>

\* HandleAction without line 38
HandleRestore_Skipped ==
    /\ hpc = "H_restore"
    /\ hpc' = "H_ret"
    /\ UNCHANGED << registryVars, hThis, pfnUserCallback, pUserCookie, in_eType,
                    pCookie, gameObjID, seenCookie, seenType >>

\* line 38: in_pCallbackInfo->pCookie = (void*)this
HandleRestore ==
    /\ hpc = "H_restore"
    /\ pCookie' = PackagePtr(hThis)
    /\ hpc' = "H_ret"
    /\ UNCHANGED << registryVars, hThis, pfnUserCallback, pUserCookie, in_eType,
                    gameObjID, seenCookie, seenType >>

NextHandle == HandleTest \/ HandleUserCallback \/ HandleRestore

SpecHandle == InitHandle /\ [][NextHandle]_vars

\* ------------------------------------------------------------------ claims
\* An end-of-event callback for the package in tPkg is running and found the
\* package registered
EndOfEventInFlight ==
    apc # "idle" /\ tPkg # NULL /\ tType = AK_EndOfEvent /\ tRemoved

\* C1: when an end-of-event callback for a package P runs together with
\* RemoveCallbackPackage(P, g), P's HandleAction is invoked at most once and P is
\* deleted at most once.
C1_HandledAndFreedAtMostOnce ==
    EndOfEventInFlight => (tInvoked <= 1 /\ freeCount[tPkg] <= 1)

\* C2: the trampoline never reads uUserFlags of a freed package and never invokes
\* HandleAction on a freed package.
C2_NoUseAfterFree == ~tUafRead /\ ~tUafCall

\* C3: with only create and remove calls, whenever no call is running the set
\* stored for every game object g is exactly the handles created for g and not
\* yet removed.
C3_MembershipExact ==
    gpc = "idle" =>
        \A g \in GameObjs :
            PackageSet(GameObjectToPackagesMap, g) =
                {p \in allocated : owner[p] = g /\ p \notin removeCalled}

C3_Witness ==
    /\ gpc = "idle"
    /\ \E p \in removeCalled, q \in allocated \ removeCalled : owner[p] = owner[q]

\* C4: RemoveCallbackPackage(P, g) for a package that UnregisterGameObject(g) has
\* already freed changes neither the map nor the number of times P was deleted.
C4_RemoveAfterUnregisterNoOp ==
    [][ (gpc \in {"R_body", "R_delete"} /\ freeCount[gPkg] > 0) =>
            /\ GameObjectToPackagesMap' = GameObjectToPackagesMap
            /\ freeCount' = freeCount ]_vars

\* C5: when UnregisterGameObject(g) is about to return, every package that was in
\* g's set has been deleted exactly once, g is no key of the map,
\* HasActiveEvents(g) is false and the sets of the other game objects are as they
\* were.
C5_UnregisterResult ==
    gpc = "U_ret" =>
        /\ \A p \in PackageSet(uMap0, gObj) : freeCount[p] = 1
        /\ ~Contains(GameObjectToPackagesMap, gObj)
        /\ ~HasActiveEventsValue(GameObjectToPackagesMap, gObj)
        /\ \A h \in GameObjs \ {gObj} :
             /\ Contains(GameObjectToPackagesMap, h) = Contains(uMap0, h)
             /\ PackageSet(GameObjectToPackagesMap, h) = PackageSet(uMap0, h)

C5_Witness ==
    /\ gpc = "U_ret"
    /\ PackageSet(uMap0, gObj) # {}
    /\ \E h \in GameObjs \ {gObj} : PackageSet(GameObjectToPackagesMap, h) # {}

\* A package an end-of-event callback has taken out of the map and not yet deleted
AwaitingDelete(p) == apc # "idle" /\ tPkg = p /\ deletePackage

\* C6: the value HasActiveEvents(g) returns is true exactly when the map has a
\* non-empty set for g, which is exactly when some package created for g is
\* neither freed nor taken out of the map by a running end-of-event callback;
\* false for an id with no package, or whose packages were all removed.
C6_HasActiveEvents ==
    gpc = "H_ret" =>
        /\ hasActiveRet = (/\ gObj \in DOMAIN GameObjectToPackagesMap
                           /\ GameObjectToPackagesMap[gObj] # {})
        /\ hasActiveRet = (\E p \in allocated :
                             owner[p] = gObj /\ freeCount[p] = 0 /\ ~AwaitingDelete(p))

C6_Witness ==
    /\ gpc = "H_ret"
    /\ ~hasActiveRet
    /\ \E p \in allocated : owner[p] = gObj /\ freeCount[p] = 1

\* C7: the destructor deletes every package held in any set, each exactly once,
\* leaves no allocated package undeleted, and sets Instance to nullptr.
C7_DestructorStep ==
    (Instance # NoInstance /\ gpc' = "destroyed") =>
        /\ \A p \in Held(GameObjectToPackagesMap) :
             freeCount[p] = 0 /\ freeCount'[p] = 1
        /\ \A p \in Packages \ Held(GameObjectToPackagesMap) :
             freeCount'[p] = freeCount[p]
        /\ \A p \in allocated : freeCount'[p] >= 1
        /\ Instance' = NoInstance

C7_Destructor ==
    /\ [](gpc = "destroyed" =>
            Instance = NoInstance /\ \A p \in allocated : freeCount[p] >= 1)
    /\ [][C7_DestructorStep]_vars

\* a package only the destructor can have deleted: never removed, never
\* cancelled, its end of event never fired
C7_Witness ==
    /\ gpc = "destroyed"
    /\ \E p \in pending \ removeCalled : freeCount[p] = 1

\* C8: an end-of-event callback for a package registered for g whose mask includes
\* end of event, with no RemoveCallbackPackage for it, invokes the handler exactly
\* once, takes the package out of g's set and deletes it exactly once; if it was
\* the only package of g, HasActiveEvents(g) is false once it is taken out.
C8_Case ==
    /\ EndOfEventInFlight
    /\ tPkg \notin removeCalled
    /\ BitAnd(uUserFlags[tPkg], AK_EndOfEvent) # 0

C8_FindStep ==
    (/\ apc = "T_find" /\ apc' = "T_flags" /\ tPkg # NULL /\ tType = AK_EndOfEvent
     /\ PackageSet(GameObjectToPackagesMap, tObj) = {tPkg}) =>
        ~HasActiveEventsValue(GameObjectToPackagesMap', tObj)

C8_EndOfEvent ==
    /\ []((C8_Case /\ apc = "T_ret") =>
            /\ tInvoked = 1
            /\ tPkg \notin Held(GameObjectToPackagesMap)
            /\ freeCount[tPkg] = 1)
    /\ []((C8_Case /\ apc # "T_ret") => freeCount[tPkg] = 0)
    /\ [][C8_FindStep]_vars

C8_Witness == C8_Case /\ apc = "T_ret" /\ freeCount[tPkg] = 1 /\ tInvoked = 1

\* C9: HandleAction is never invoked by a thread that holds CriticalSection.
C9_HandlerOutsideLock == apc = "T_handle" => CriticalSection # "audio"

C9_Witness == apc = "T_handle" /\ CriticalSection = "game"

\* C10: no operation of the registry runs delete on a package while the deleting
\* thread holds CriticalSection.
C10_NoDeleteUnderLock == ~gDelLocked /\ ~tDelLocked

\* The package was added to the map and nothing has taken it out or deleted it
Registered(p) ==
    /\ p \in allocated
    /\ Instance # NoInstance
    /\ ~(gpc \in {"C_lock", "C_add"} /\ gPkg = p)
    /\ ~(gpc = "R_delete" /\ gPkg = p)
    /\ ~AwaitingDelete(p)
    /\ freeCount[p] = 0

\* C11: a package handle is in the set of at most one game object, the one it was
\* created for, and it is in that set from its creation until it is removed.
C11_OneSetPerPackage ==
    /\ \A g \in DOMAIN GameObjectToPackagesMap :
         \A p \in GameObjectToPackagesMap[g] : p \in allocated /\ owner[p] = g
    /\ \A p \in Packages :
         Registered(p) => p \in PackageSet(GameObjectToPackagesMap, owner[p])

C11_Witness ==
    \E p \in Packages, q \in Packages :
        /\ Registered(p) /\ Registered(q) /\ owner[p] # owner[q]
        /\ \A g \in GameObjs : Contains(GameObjectToPackagesMap, g)

\* C12: whenever the lock is free, every package held in a set of the map is
\* allocated and has not been deleted.
C12_HeldIsAllocated ==
    CriticalSection = "none" =>
        \A p \in Held(GameObjectToPackagesMap) : p \in allocated /\ freeCount[p] = 0

C12_Witness ==
    /\ CriticalSection = "none"
    /\ Held(GameObjectToPackagesMap) # {}
    /\ \E q \in allocated : freeCount[q] > 0

\* A step of the audio thread: every action of the trampoline moves apc
AudioStep == apc' # apc

\* C13: in an end-of-event callback the package is taken out of the map under the
\* lock, before the handler runs, and the trampoline deletes it only in its last
\* step, after the handler has returned.
C13_StepOrder ==
    /\ (AudioStep /\ GameObjectToPackagesMap' # GameObjectToPackagesMap) =>
           /\ apc = "T_find" /\ CriticalSection = "audio"
           /\ tType = AK_EndOfEvent /\ tInvoked = 0
           /\ freeCount' = freeCount
    /\ (AudioStep /\ tInvoked' > tInvoked) =>
           /\ apc = "T_handle" /\ apc' = "T_delete"
           /\ (tType = AK_EndOfEvent /\ deletePackage) =>
                  tPkg \notin Held(GameObjectToPackagesMap)
           /\ GameObjectToPackagesMap' = GameObjectToPackagesMap
           /\ freeCount' = freeCount
    /\ (AudioStep /\ freeCount' # freeCount) =>
           /\ apc = "T_delete" /\ apc' = "T_ret" /\ deletePackage
           /\ freeCount' = [freeCount EXCEPT ![tPkg] = @ + 1]

C13_Order ==
    /\ [][C13_StepOrder]_vars
    /\ []((apc = "T_ret" /\ tPkg # NULL /\ tType = AK_EndOfEvent /\ tRemoved) =>
             deletePackage /\ freeCount[tPkg] >= 1)

C13_Witness ==
    /\ apc = "T_delete" /\ tType = AK_EndOfEvent /\ tRemoved /\ deletePackage
    /\ tInvoked = 1 /\ freeCount[tPkg] = 0
    /\ tPkg \notin Held(GameObjectToPackagesMap)

\* C14: a callback that has passed the null checks invokes HandleAction exactly
\* when the package's flag mask and the event type have a common bit, whether or
\* not the package was found in the map.
C14_InvokedIffMasked ==
    (apc = "T_ret" /\ tPkg # NULL /\ Instance # NoInstance) =>
        (tInvoked = 1) = (BitAnd(uUserFlags[tPkg], tType) # 0)

\* C15: a callback with a null cookie, or arriving when Instance is nullptr, goes
\* straight to its return: it does not take the lock, changes no set, invokes no
\* handler and deletes nothing.
C15_NullStep ==
    /\ (apc = "idle" /\ AudioStep /\ (tPkg' = NULL \/ Instance = NoInstance)) =>
           /\ apc' = "T_ret"
           /\ UNCHANGED << GameObjectToPackagesMap, CriticalSection, freeCount,
                           deletePackage, tInvoked >>
    /\ (apc = "T_ret" /\ AudioStep /\ (tPkg = NULL \/ Instance = NoInstance)) =>
           /\ apc' = "idle"
           /\ UNCHANGED << GameObjectToPackagesMap, CriticalSection, freeCount >>

C15_NullCallback ==
    /\ [][C15_NullStep]_vars
    /\ []((apc # "idle" /\ (tPkg = NULL \/ Instance = NoInstance)) =>
             /\ apc = "T_ret"
             /\ CriticalSection # "audio"
             /\ tInvoked = 0 /\ ~deletePackage)

C15_Witness == apc = "T_ret" /\ tPkg # NULL /\ Instance = NoInstance

\* C17: with Optimize::Value = MemoryUsage no set stored in the map is empty when
\* the lock is free, so HasActiveEvents(g) is the same as g being a key, and only
\* CreateCallbackPackage adds a key: RegisterGameObject never does.
C17_NoEmptySet ==
    /\ [](CriticalSection = "none" =>
            \A g \in GameObjs :
                /\ Contains(GameObjectToPackagesMap, g) =>
                       GameObjectToPackagesMap[g] # {}
                /\ HasActiveEventsValue(GameObjectToPackagesMap, g) =
                       Contains(GameObjectToPackagesMap, g))
    /\ [][ ~(DOMAIN GameObjectToPackagesMap' \subseteq DOMAIN GameObjectToPackagesMap)
             => gpc = "C_add" ]_vars

C17_Witness ==
    /\ CriticalSection = "none"
    /\ DOMAIN GameObjectToPackagesMap # {}
    /\ \E p \in allocated :
         /\ ~Contains(GameObjectToPackagesMap, owner[p])
         /\ freeCount[p] > 0

\* The event type of the callback an audio step belongs to
StepType == IF apc = "idle" THEN tType' ELSE tType

\* C18: no step of a callback whose event type is not end of event changes the
\* map or deletes a package, and the engine keeps the cookie for further events.
C18_OtherEventFrame ==
    [][ (AudioStep /\ StepType # AK_EndOfEvent) =>
            UNCHANGED << GameObjectToPackagesMap, freeCount, pending >> ]_vars

C18_Witness ==
    /\ apc = "T_ret" /\ tPkg # NULL /\ tType = AK_Marker /\ tInvoked = 1
    /\ tPkg \in Held(GameObjectToPackagesMap)
    /\ tPkg \in pending /\ freeCount[tPkg] = 0

\* C19: an end-of-event callback for a registered package whose mask does not
\* include end of event takes the package out of its set and deletes it, and
\* does not invoke its handler.
C19_RemovedWithoutHandler ==
    (/\ EndOfEventInFlight /\ apc = "T_ret"
     /\ BitAnd(uUserFlags[tPkg], AK_EndOfEvent) = 0) =>
        /\ tPkg \notin Held(GameObjectToPackagesMap)
        /\ freeCount[tPkg] >= 1
        /\ tInvoked = 0

\* C16: with a user function, HandleAction calls it with the callback info's
\* cookie set to the user's cookie and has the cookie pointing to the package
\* when it returns; without one it calls nothing and writes nothing.
C16_CookieSwap ==
    /\ [](hpc = "H_call" => pCookie = UserPtr(pUserCookie))
    /\ []((hpc \in {"H_restore", "H_ret"} /\ pfnUserCallback # NULL) =>
             seenCookie = UserPtr(pUserCookie) /\ seenType = in_eType)
    /\ []((hpc = "H_ret" /\ pfnUserCallback # NULL) => pCookie = PackagePtr(hThis))
    /\ [](pfnUserCallback = NULL => seenCookie = NotCalled /\ hpc \in {"H_if", "H_ret"})
    /\ [][ pfnUserCallback = NULL =>
             /\ hpc' = "H_ret"
             /\ UNCHANGED << pCookie, gameObjID, seenCookie, seenType,
                             registryVars >> ]_vars

C16_Witness ==
    /\ hpc = "H_ret" /\ pfnUserCallback # NULL /\ pUserCookie # 0
    /\ seenCookie = UserPtr(pUserCookie)
    /\ pCookie = PackagePtr(hThis)

\* C20: UnregisterGameObject does not hold the lock while it waits in
\* CancelEventCallbackGameObject, and under fair scheduling every call of it
\* returns, also when a callback for the same game object is running.
C20_UnregisterTerminates ==
    /\ [](gpc = "U_cancel" => CriticalSection # "game")
    /\ (gpc = "U_cancel") ~> (gpc = "idle")

C20_Witness ==
    /\ gpc = "U_cancel"
    /\ apc = "T_lock" /\ tPkg # NULL /\ tObj = gObj
====
